---- MODULE Spec2Model ----
(***************************************************************************)
(* Model of src/http.c: the libcurl wrappers http_init, http_cleanup,      *)
(* http_get, http_post and http_parse_url with their two streaming         *)
(* callbacks.  src/http.c holds three translation units one after the      *)
(* other; `variant` says which one the modelled process was built from:    *)
(*   1 = lines   1..394 (guarded http_init/http_cleanup, url[PATH_MAX],    *)
(*                       POST headers, http_parse_url)                     *)
(*   2 = lines 396..604 (asprintf URL, curl_global_init per call, strdup   *)
(*                       of the body, no headers)                          *)
(*   3 = lines 606..838 (as 1, without http_init/http_cleanup/parse)       *)
(* Strings are sequences of one-character strings, response bytes are      *)
(* small naturals with 0 the NUL byte, a pointer is a record               *)
(* [null, mem] whose mem is the content of the allocation it points to.    *)
(***************************************************************************)
EXTENDS Integers, Sequences, FiniteSets, TLC

\* ------------------------------------------------------------------ bounds
MaxWrites == 2
MaxReadCalls == 3
MaxGlobalCalls == 2

\* --------------------------------------------------------------- constants
\* PATH_MAX of <limits.h> on Linux; the CURLE_ and CURLUE_ codes of <curl/curl.h>
PATH_MAX == 4096
CURLE_OK == 0
CURLE_COULDNT_CONNECT == 7
CURLE_WRITE_ERROR == 23

\* ------------------------------------------------------------------ inputs
\* bytes of a response body; 0 is the NUL byte
Bytes == {0, 1, 2}

\* what an uninitialised byte may hold
Garbage == {0, 1}

\* chunks the transport may offer to write_callback
Chunks == {<<>>, <<1>>, <<2, 0, 1>>}

\* buffer capacities (size * nmemb) the transport may offer to read_callback
Caps == {1, 2}

LongHost == [i \in 1..PATH_MAX |-> "a"]

\* the requests the caller may issue
PostRequests ==
    { [host |-> <<"h">>, port |-> 80, path |-> <<"/", "/", "a", "/", "b">>, json |-> <<"p", "q">>],
      [host |-> <<"h">>, port |-> 5000, path |-> <<"x">>, json |-> <<>>],
      [host |-> LongHost, port |-> 80, path |-> <<"/", "x">>, json |-> <<>>] }

GetRequests ==
    { [host |-> <<"h">>, port |-> 80, path |-> <<>>, json |-> <<>>],
      [host |-> LongHost, port |-> 5000, path |-> <<"/", "/", "a", "/", "b">>, json |-> <<>>] }

\* ---------------------------------------------------------------- pointers
NULL == [null |-> TRUE, mem |-> <<>>]

Ptr(m) == [null |-> FALSE, mem |-> m]

\* the C string stored at mem: the bytes before the first NUL
strlen(mem) ==
    IF \E i \in 1..Len(mem) : mem[i] = 0
    THEN (CHOOSE i \in 1..Len(mem) : mem[i] = 0 /\ \A j \in 1..(i - 1) : mem[j] # 0) - 1
    ELSE Len(mem)

strdup(p, ok) == IF ok THEN Ptr(SubSeq(p.mem, 1, strlen(p.mem)) \o <<0>>) ELSE NULL

\* ------------------------------------------------------------ URL building
Digit(d) == <<"0", "1", "2", "3", "4", "5", "6", "7", "8", "9">>[d + 1]

RECURSIVE Decimal(_)
Decimal(n) == IF n < 10 THEN <<Digit(n)>> ELSE Decimal(n \div 10) \o <<Digit(n % 10)>>

RECURSIVE StripLeadingSlashes(_)
StripLeadingSlashes(path) ==
    IF path # <<>> /\ Head(path) = "/" THEN StripLeadingSlashes(Tail(path)) ELSE path

\* the text produced by the format "%s:%u/%s"
Format(host, port, path) == host \o <<":">> \o Decimal(port) \o <<"/">> \o path

\* snprintf(url, n, ...): at most n-1 characters are stored, the return value
\* is the length the full text would have had, -1 only on an output error
snprintf(n, text, ok) ==
    IF ok THEN [buf |-> IF Len(text) < n THEN text ELSE SubSeq(text, 1, n - 1), ret |-> Len(text)]
    ELSE [buf |-> <<>>, ret |-> -1]

\* asprintf(&url, ...): the whole text in a fresh allocation, -1 on failure
asprintf(text, ok) ==
    IF ok THEN [buf |-> text, ret |-> Len(text)] ELSE [buf |-> <<>>, ret |-> -1]

PostHeaders == <<"Accept: application/json", "Content-Type: application/json", "charsets: utf-8">>

NoEasy == [set |-> FALSE, url |-> <<>>, post |-> FALSE, postfieldsize |-> -1, headers |-> <<>>]

NoArgs == [host |-> <<>>, port |-> 0, path |-> <<>>, json |-> <<>>, url |-> <<>>]

NoRequest == [data |-> <<>>, size |-> 0]

\* the caller's output variables before the call: pointers NULL, port not written
NoOut == [host |-> NULL, port |-> -1, path |-> NULL, query |-> NULL]

NoData == [data |-> NULL, size |-> 0]

VARIABLES
    variant,                        \* which translation unit of src/http.c
    pc,                             \* "idle", "perform" (inside curl_easy_perform), "returned", "crashed"
    op,                             \* the operation running or last returned
    args,                           \* its arguments
    _curl_global_init_spawned,
    _curl_global_cleanup_spawned,
    initialized,                    \* libcurl's count of outstanding global inits
    global_init_calls,              \* executions of curl_global_init
    global_cleanup_calls,           \* executions of curl_global_cleanup
    skipped,                        \* the last http_init/http_cleanup found its flag set
    easy,                           \* options set on the easy handle
    response_data,                  \* struct write_callback_data / data_to_store
    request_data,                   \* struct read_callback_data / data_to_send
    sent,                           \* bytes copied to the transport by read_callback
    read_hist,                      \* return values of the read_callback invocations
    write_hist,                     \* [contents, ret, ok] of the write_callback invocations
    ret,                            \* return value of the last returned operation
    response,                       \* *response of http_get/http_post
    out,                            \* *host, *port, *path, *query of http_parse_url
    init_hist,                      \* order of the http_init and http_cleanup calls so far
    acquired,                       \* resources the running or returned call has acquired
    released                        \* resources it has released or handed to the caller, in order

vars == <<variant, pc, op, args, _curl_global_init_spawned, _curl_global_cleanup_spawned,
          initialized, global_init_calls, global_cleanup_calls, skipped, easy,
          response_data, request_data, sent, read_hist, write_hist,
          ret, response, out, init_hist, acquired, released>>

globals == <<_curl_global_init_spawned, _curl_global_cleanup_spawned, initialized,
             global_init_calls, global_cleanup_calls, init_hist>>

Init ==
    /\ variant \in {1, 2, 3}
    /\ pc = "idle"
    /\ op = "none"
    /\ args = NoArgs
    /\ _curl_global_init_spawned = 0
    /\ _curl_global_cleanup_spawned = 0
    /\ initialized = 0
    /\ global_init_calls = 0
    /\ global_cleanup_calls = 0
    /\ skipped = FALSE
    /\ easy = NoEasy
    /\ response_data = NoData
    /\ request_data = NoRequest
    /\ sent = <<>>
    /\ read_hist = <<>>
    /\ write_hist = <<>>
    /\ ret = 0
    /\ response = NULL
    /\ out = NoOut
    /\ init_hist = "no_init"
    /\ acquired = {}
    /\ released = <<>>

\* a call starts: nothing is sent or received yet
NewCall(name, a) ==
    /\ op' = name
    /\ args' = a
    /\ sent' = <<>>
    /\ read_hist' = <<>>
    /\ write_hist' = <<>>

\* a call that neither touches a transfer nor writes an output
NoTransfer ==
    /\ easy' = NoEasy
    /\ response_data' = NoData
    /\ request_data' = NoRequest
    /\ response' = NULL
    /\ out' = NoOut
    /\ acquired' = {}
    /\ released' = <<>>

\* ------------------------------------------------- http_init / http_cleanup
\* curl_global_init / curl_global_cleanup act on libcurl's count of global inits
curl_global_init(n) == n + 1

curl_global_cleanup(n) == IF n > 0 THEN n - 1 ELSE 0

\* the calls so far, as far as their order matters: "no_init" no http_init yet,
\* "init" http_init was called and no http_cleanup after it, "cleaned" http_cleanup
\* was the last call of the two, "reinit" http_init was called after such an http_cleanup
after_http_init(h) == IF h \in {"no_init", "init"} THEN "init" ELSE "reinit"

after_http_cleanup(h) == IF h = "no_init" THEN "no_init" ELSE "cleaned"

\* http_init without the test of _curl_global_init_spawned
http_init_unguarded ==
    /\ pc = "idle"
    /\ variant = 1
    /\ global_init_calls <= MaxGlobalCalls
    /\ NewCall("http_init", NoArgs)
    /\ NoTransfer
    /\ initialized' = curl_global_init(initialized)
    /\ global_init_calls' = global_init_calls + 1
    /\ _curl_global_init_spawned' = 1
    /\ skipped' = FALSE
    /\ init_hist' = after_http_init(init_hist)
    /\ ret' = 0
    /\ UNCHANGED <<variant, pc, _curl_global_cleanup_spawned, global_cleanup_calls>>

\* http_init that sets its flag and leaves curl_global_init out
http_init_flag_only ==
    /\ pc = "idle"
    /\ variant = 1
    /\ NewCall("http_init", NoArgs)
    /\ NoTransfer
    /\ _curl_global_init_spawned' = 1
    /\ skipped' = (_curl_global_init_spawned # 0)
    /\ init_hist' = after_http_init(init_hist)
    /\ ret' = 0
    /\ UNCHANGED <<variant, pc, initialized, global_init_calls,
                   _curl_global_cleanup_spawned, global_cleanup_calls>>

http_init ==
    /\ pc = "idle"
    /\ variant = 1
    /\ NewCall("http_init", NoArgs)
    /\ NoTransfer
    /\ IF _curl_global_init_spawned = 0
       THEN /\ initialized' = curl_global_init(initialized)
            /\ global_init_calls' = global_init_calls + 1
            /\ _curl_global_init_spawned' = 1
            /\ skipped' = FALSE
       ELSE /\ UNCHANGED <<initialized, global_init_calls, _curl_global_init_spawned>>
            /\ skipped' = TRUE
    /\ init_hist' = after_http_init(init_hist)
    /\ ret' = 0
    /\ UNCHANGED <<variant, pc, _curl_global_cleanup_spawned, global_cleanup_calls>>

http_cleanup ==
    /\ pc = "idle"
    /\ variant = 1
    /\ NewCall("http_cleanup", NoArgs)
    /\ NoTransfer
    /\ IF _curl_global_cleanup_spawned = 0
       THEN /\ initialized' = curl_global_cleanup(initialized)
            /\ global_cleanup_calls' = global_cleanup_calls + 1
            /\ _curl_global_cleanup_spawned' = 1
            /\ skipped' = FALSE
       ELSE /\ UNCHANGED <<initialized, global_cleanup_calls, _curl_global_cleanup_spawned>>
            /\ skipped' = TRUE
    /\ init_hist' = after_http_cleanup(init_hist)
    /\ ret' = 0
    /\ UNCHANGED <<variant, pc, _curl_global_init_spawned, global_init_calls>>

\* ------------------------------------------------------ http_get / http_post
\* malloc(1): NULL, or one byte whose content is indeterminate
malloc1(ok, garbage) == IF ok THEN Ptr(<<garbage>>) ELSE NULL

\* the response buffer is a resource of the call when malloc(1) returned one
Allocated(ok) == IF ok THEN {"response_buffer"} ELSE {}

\* translation units 1 and 3: from entry to the call of curl_easy_perform
Begin(name, post, host, port, path, json, fmt_ok, malloc_ok, garbage, easy_ok) ==
    /\ pc = "idle"
    /\ variant \in {1, 3}
    /\ NewCall(name, [host |-> host, port |-> port, path |-> path, json |-> json, url |-> <<>>])
    /\ response' = NULL
    /\ out' = NoOut
    /\ skipped' = FALSE
    /\ LET f == snprintf(PATH_MAX, Format(host, port, StripLeadingSlashes(path)), fmt_ok)
       IN  IF f.ret = -1
           THEN /\ ret' = -1
                /\ pc' = "returned"
                /\ easy' = NoEasy
                /\ response_data' = NoData
                /\ request_data' = NoRequest
                /\ acquired' = {}
           ELSE /\ response_data' = [data |-> malloc1(malloc_ok, garbage), size |-> 0]
                /\ request_data' = IF post THEN [data |-> json, size |-> Len(json)] ELSE NoRequest
                /\ IF easy_ok
                   THEN /\ easy' = [set |-> TRUE, url |-> f.buf, post |-> post,
                                    postfieldsize |-> IF post THEN Len(json) ELSE -1,
                                    headers |-> IF post THEN PostHeaders ELSE <<>>]
                        /\ pc' = "perform"
                        /\ ret' = 0
                        /\ acquired' = Allocated(malloc_ok) \cup {"easy"}
                                            \cup (IF post THEN {"headers"} ELSE {})
                   ELSE /\ easy' = NoEasy
                        /\ pc' = "returned"
                        /\ ret' = -1
                        /\ acquired' = Allocated(malloc_ok)
    /\ released' = <<>>
    /\ UNCHANGED <<variant, globals>>

http_post(host, port, path, json, fmt_ok, malloc_ok, garbage, easy_ok) ==
    Begin("http_post", TRUE, host, port, path, json, fmt_ok, malloc_ok, garbage, easy_ok)

http_get(host, port, path, fmt_ok, malloc_ok, garbage, easy_ok) ==
    Begin("http_get", FALSE, host, port, path, <<>>, fmt_ok, malloc_ok, garbage, easy_ok)

\* translation unit 2: from entry to the call of curl_easy_perform
Begin2(name, post, host, port, path, json, malloc_ok, init_ok, fmt_ok, easy_ok) ==
    /\ pc = "idle"
    /\ variant = 2
    /\ global_init_calls < MaxGlobalCalls
    /\ NewCall(name, [host |-> host, port |-> port, path |-> path, json |-> json, url |-> <<>>])
    /\ response' = NULL
    /\ out' = NoOut
    /\ skipped' = FALSE
    /\ UNCHANGED <<variant, _curl_global_init_spawned, _curl_global_cleanup_spawned, init_hist>>
    /\ IF ~malloc_ok
       THEN \* response.data[0] = 0 stores through a null pointer
            /\ pc' = "crashed"
            /\ ret' = 0
            /\ easy' = NoEasy
            /\ response_data' = NoData
            /\ request_data' = NoRequest
            /\ acquired' = {}
            /\ released' = <<>>
            /\ UNCHANGED <<initialized, global_init_calls, global_cleanup_calls>>
       ELSE /\ response_data' = [data |-> Ptr(<<0>>), size |-> 0]
            /\ request_data' = IF post THEN [data |-> json, size |-> Len(json)] ELSE NoRequest
            /\ IF ~init_ok
               THEN /\ ret' = -1
                    /\ pc' = "returned"
                    /\ easy' = NoEasy
                    /\ global_init_calls' = global_init_calls + 1
                    /\ acquired' = {"response_buffer"}
                    /\ released' = <<>>
                    /\ UNCHANGED <<initialized, global_cleanup_calls>>
               ELSE LET f == asprintf(Format(host, port, StripLeadingSlashes(path)), fmt_ok)
                    IN  /\ global_init_calls' = global_init_calls + 1
                        /\ IF f.ret = -1
                           THEN /\ ret' = -1
                                /\ pc' = "returned"
                                /\ easy' = NoEasy
                                /\ initialized' = curl_global_init(initialized)
                                /\ acquired' = {"response_buffer", "global"}
                                /\ released' = <<>>
                                /\ UNCHANGED global_cleanup_calls
                           ELSE IF easy_ok
                                THEN /\ easy' = [set |-> TRUE, url |-> f.buf, post |-> post,
                                                 postfieldsize |-> IF post THEN Len(json) ELSE -1,
                                                 headers |-> <<>>]
                                     /\ pc' = "perform"
                                     /\ ret' = 0
                                     /\ initialized' = curl_global_init(initialized)
                                     /\ acquired' = {"response_buffer", "global", "url", "easy"}
                                     /\ released' = <<>>
                                     /\ UNCHANGED global_cleanup_calls
                                ELSE /\ easy' = NoEasy
                                     /\ pc' = "returned"
                                     /\ ret' = -1
                                     /\ initialized' = curl_global_cleanup(curl_global_init(initialized))
                                     /\ global_cleanup_calls' = global_cleanup_calls + 1
                                     /\ acquired' = {"response_buffer", "global", "url"}
                                     /\ released' = <<"global">>

http_post_2(host, port, path, json, malloc_ok, init_ok, fmt_ok, easy_ok) ==
    Begin2("http_post", TRUE, host, port, path, json, malloc_ok, init_ok, fmt_ok, easy_ok)

http_get_2(host, port, path, malloc_ok, init_ok, fmt_ok, easy_ok) ==
    Begin2("http_get", FALSE, host, port, path, <<>>, malloc_ok, init_ok, fmt_ok, easy_ok)

\* ---------------------------------------------------------------- callbacks
\* the transport aborts the transfer once write_callback returned another
\* count than the one it was offered
Aborted == \E i \in 1..Len(write_hist) : write_hist[i].ret # Len(write_hist[i].contents)

Min(a, b) == IF a < b THEN a ELSE b

\* read_callback that decrements size without advancing the data pointer
read_copy_no_advance(data, buffer_size) ==
    IF data.size # 0
    THEN LET copy_this_much == Min(data.size, buffer_size)
         IN  [copied |-> SubSeq(data.data, 1, copy_this_much),
              data |-> [data |-> data.data, size |-> data.size - copy_this_much],
              ret |-> copy_this_much]
    ELSE [copied |-> <<>>, data |-> data, ret |-> 0]

\* read_callback on (data, size) with room for buffer_size bytes
read_copy(data, buffer_size) ==
    IF data.size # 0
    THEN LET copy_this_much == Min(data.size, buffer_size)
         IN  [copied |-> SubSeq(data.data, 1, copy_this_much),
              data |-> [data |-> SubSeq(data.data, copy_this_much + 1, Len(data.data)),
                        size |-> data.size - copy_this_much],
              ret |-> copy_this_much]
    ELSE [copied |-> <<>>, data |-> data, ret |-> 0]

read_callback(buffer_size) ==
    /\ pc = "perform"
    /\ easy.post
    /\ ~Aborted
    /\ Len(read_hist) < MaxReadCalls
    /\ LET r == read_copy(request_data, buffer_size)
       IN  /\ request_data' = r.data
           /\ sent' = sent \o r.copied
           /\ read_hist' = Append(read_hist, r.ret)
    /\ UNCHANGED <<acquired, released>>
    /\ UNCHANGED <<variant, pc, op, args, globals, skipped, easy, response_data,
                   write_hist, ret, response, out>>

\* write_callback that reports the chunk as consumed when realloc failed
write_store_ignores_failure(data, contents, realloc_ok) ==
    IF ~realloc_ok
    THEN [data |-> data, ret |-> Len(contents), ok |-> FALSE]
    ELSE [data |-> [data |-> Ptr(SubSeq(data.data.mem, 1, data.size) \o contents \o <<0>>),
                    size |-> data.size + Len(contents)],
          ret |-> Len(contents), ok |-> TRUE]

\* write_callback that copies the chunk to the start of the buffer
write_store_overwrites(data, contents, realloc_ok) ==
    IF ~realloc_ok
    THEN [data |-> data, ret |-> 0, ok |-> FALSE]
    ELSE [data |-> [data |-> Ptr(contents \o <<0>>), size |-> Len(contents)],
          ret |-> Len(contents), ok |-> TRUE]

\* write_callback on (data, size) offered the chunk contents; realloc may fail
write_store(data, contents, realloc_ok) ==
    IF ~realloc_ok
    THEN [data |-> data, ret |-> 0, ok |-> FALSE]
    ELSE [data |-> [data |-> Ptr(SubSeq(data.data.mem, 1, data.size) \o contents \o <<0>>),
                    size |-> data.size + Len(contents)],
          ret |-> Len(contents), ok |-> TRUE]

write_callback(contents, realloc_ok) ==
    /\ pc = "perform"
    /\ ~Aborted
    /\ Len(write_hist) < MaxWrites
    /\ LET w == write_store(response_data, contents, realloc_ok)
       IN  /\ response_data' = w.data
           /\ write_hist' = Append(write_hist, [contents |-> contents, ret |-> w.ret, ok |-> w.ok])
           \* realloc of a null pointer allocates: the buffer is the call's from then on
           /\ acquired' = acquired \cup Allocated(w.data.data # NULL)
    /\ UNCHANGED released
    /\ UNCHANGED <<variant, pc, op, args, globals, skipped, easy, request_data,
                   sent, read_hist, ret, response, out>>

\* ------------------------------------------- return from curl_easy_perform
\* result codes the transport may end the transfer with
PerformResults == IF Aborted THEN {CURLE_WRITE_ERROR} ELSE {CURLE_OK, CURLE_COULDNT_CONNECT}

\* storing a pointer in *response hands the memory it points to over to the caller
handed(p, resource) == IF p = NULL THEN <<>> ELSE <<resource>>

\* translation units 1 and 3: curl_easy_cleanup, *response = response_data.data
http_return(res) ==
    /\ pc = "perform"
    /\ variant \in {1, 3}
    /\ res \in PerformResults
    /\ response' = response_data.data
    /\ released' = released \o <<"easy">> \o handed(response_data.data, "response_buffer")
    /\ ret' = res
    /\ pc' = "returned"
    /\ UNCHANGED acquired
    /\ UNCHANGED <<variant, op, args, globals, skipped, easy, response_data, request_data,
                   sent, read_hist, write_hist, out>>

\* translation unit 2: curl_global_cleanup, *_response = strdup(response.data)
http_return_2(res, dup_ok) ==
    /\ pc = "perform"
    /\ variant = 2
    /\ res \in PerformResults
    /\ initialized' = curl_global_cleanup(initialized)
    /\ global_cleanup_calls' = global_cleanup_calls + 1
    /\ response' = strdup(response_data.data, dup_ok)
    /\ acquired' = acquired \cup (IF dup_ok THEN {"response_copy"} ELSE {})
    /\ released' = released \o <<"easy", "global">>
                        \o handed(strdup(response_data.data, dup_ok), "response_copy")
    /\ ret' = res
    /\ pc' = "returned"
    /\ UNCHANGED <<variant, op, args, _curl_global_init_spawned, _curl_global_cleanup_spawned,
                   init_hist,
                   global_init_calls, skipped, easy, response_data, request_data,
                   sent, read_hist, write_hist, out>>

\* ---------------------------------------------------------- http_parse_url
\* URLs the caller may pass:
\*   "http://w.c/e?b=j"  "w.c"  "w.c:8080/p"  "https://w.c?k"  "w.c:0080/p?"
\*   ""  "gx://w.c"  "w.c:7x"  "w.c:70000"
Urls ==
    { <<"h", "t", "t", "p", ":", "/", "/", "w", ".", "c", "/", "e", "?", "b", "=", "j">>,
      <<"w", ".", "c">>,
      <<"w", ".", "c", ":", "8", "0", "8", "0", "/", "p">>,
      <<"h", "t", "t", "p", "s", ":", "/", "/", "w", ".", "c", "?", "k">>,
      <<"w", ".", "c", ":", "0", "0", "8", "0", "/", "p", "?">>,
      <<>>,
      <<"g", "x", ":", "/", "/", "w", ".", "c">>,
      <<"w", ".", "c", ":", "7", "x">>,
      <<"w", ".", "c", ":", "7", "0", "0", "0", "0">> }

Digits == {"0", "1", "2", "3", "4", "5", "6", "7", "8", "9"}

Letters == {"a", "b", "c", "e", "g", "h", "j", "k", "p", "s", "t", "w", "x"}

DigitValue(c) == CHOOSE d \in 0..9 : Digit(d) = c

\* strtoul(text, 0, 10) on a string of decimal digits
RECURSIVE strtoul(_)
strtoul(text) ==
    IF text = <<>> THEN 0
    ELSE 10 * strtoul(SubSeq(text, 1, Len(text) - 1)) + DigitValue(text[Len(text)])

\* index of the first character of s that is in cs, Len(s) + 1 when there is none
FirstOf(s, cs) ==
    IF \E i \in 1..Len(s) : s[i] \in cs
    THEN CHOOSE i \in 1..Len(s) : s[i] \in cs /\ \A j \in 1..(i - 1) : s[j] \notin cs
    ELSE Len(s) + 1

\* index of the last ":" of s, 0 when there is none
LastColon(s) ==
    IF \E i \in 1..Len(s) : s[i] = ":"
    THEN CHOOSE i \in 1..Len(s) : s[i] = ":" /\ \A j \in (i + 1)..Len(s) : s[j] # ":"
    ELSE 0

\* length of the scheme when s starts with "<letters>://", 0 otherwise
SchemeLen(s) ==
    LET c == FirstOf(s, {":"})
    IN  IF /\ c > 1
           /\ c + 2 <= Len(s)
           /\ s[c + 1] = "/"
           /\ s[c + 2] = "/"
           /\ \A j \in 1..(c - 1) : s[j] \in Letters
        THEN c - 1
        ELSE 0

SupportedSchemes == {<<"h", "t", "t", "p">>, <<"h", "t", "t", "p", "s">>}

CURLUE_OK == 0
CURLUE_MALFORMED_INPUT == 3
CURLUE_BAD_PORT_NUMBER == 4
CURLUE_UNSUPPORTED_SCHEME == 5
CURLUE_OUT_OF_MEMORY == 7
CURLUE_NO_PORT == 15
CURLUE_NO_QUERY == 16

BadUrl(code) ==
    [code |-> code, host |-> <<>>, has_port |-> FALSE, port |-> <<>>, path |-> <<>>,
     has_query |-> FALSE, query |-> <<>>]

\* the parts the handle stores: an empty path is "/", a port is kept in decimal
\* without leading zeros, tail is the URL from its path on
curl_url_parts(scheme, hostTxt, portTxt, tail, q) ==
    IF scheme # <<>> /\ scheme \notin SupportedSchemes THEN BadUrl(CURLUE_UNSUPPORTED_SCHEME)
    ELSE IF hostTxt = <<>> THEN BadUrl(CURLUE_MALFORMED_INPUT)
    ELSE IF \/ \E i \in 1..Len(portTxt) : portTxt[i] \notin Digits
            \/ (portTxt # <<>> /\ strtoul(portTxt) > 65535)
    THEN BadUrl(CURLUE_BAD_PORT_NUMBER)
    ELSE [code |-> CURLUE_OK,
          host |-> hostTxt,
          has_port |-> portTxt # <<>>,
          port |-> IF portTxt # <<>> THEN Decimal(strtoul(portTxt)) ELSE <<>>,
          path |-> IF q = 1 THEN <<"/">> ELSE SubSeq(tail, 1, q - 1),
          has_query |-> q <= Len(tail),
          query |-> SubSeq(tail, q + 1, Len(tail))]

\* the authority is split at its last ":" into host and port
curl_url_authority(scheme, auth, colon, tail) ==
    curl_url_parts(scheme,
                   IF colon > 0 THEN SubSeq(auth, 1, colon - 1) ELSE auth,
                   IF colon > 0 THEN SubSeq(auth, colon + 1, Len(auth)) ELSE <<>>,
                   tail, FirstOf(tail, {"?"}))

\* rest is the URL after "<scheme>://", e the index where its authority ends
curl_url_rest(scheme, rest, e) ==
    curl_url_authority(scheme, SubSeq(rest, 1, e - 1), LastColon(SubSeq(rest, 1, e - 1)),
                       SubSeq(rest, e, Len(rest)))

curl_url_scheme(url, n) ==
    IF n > 0
    THEN curl_url_rest(SubSeq(url, 1, n), SubSeq(url, n + 4, Len(url)),
                       FirstOf(SubSeq(url, n + 4, Len(url)), {"/", "?"}))
    ELSE curl_url_rest(<<>>, url, FirstOf(url, {"/", "?"}))

\* curl_url_set(url_h, CURLUPART_URL, url, CURLU_GUESS_SCHEME): a missing scheme
\* is guessed, never a reason to reject
curl_url_set(url) == curl_url_scheme(url, SchemeLen(url))

\* curl_url_get of one part: its result code; oom is an allocation failure
curl_url_get(u, part, oom) ==
    IF oom THEN CURLUE_OUT_OF_MEMORY
    ELSE IF part = "port" /\ ~u.has_port THEN CURLUE_NO_PORT
    ELSE IF part = "query" /\ ~u.has_query THEN CURLUE_NO_QUERY
    ELSE CURLUE_OK

\* strdup of a text: a fresh copy, or NULL when the allocation fails
strdup_text(text, ok) == IF ok THEN Ptr(text) ELSE NULL

\* places where the library may run out of memory
LibFaults == {"none", "curl_url", "host", "port", "path", "query"}

DupFaults == SUBSET {"host", "path", "query"}

ParseFailed == [ret |-> -1, out |-> NoOut]

\* http_parse_url once the four curl_url_get calls returned their codes
parse_parts(u, host_code, port_code, path_code, query_code, dup_fault) ==
    IF host_code # CURLUE_OK THEN ParseFailed
    ELSE IF port_code # CURLUE_OK /\ port_code # CURLUE_NO_PORT THEN ParseFailed
    ELSE IF path_code # CURLUE_OK THEN ParseFailed
    ELSE IF query_code # CURLUE_OK /\ query_code # CURLUE_NO_QUERY THEN ParseFailed
    ELSE [ret |-> 0,
          out |-> [host  |-> strdup_text(u.host, "host" \notin dup_fault),
                   port  |-> IF port_code # CURLUE_OK THEN 80 ELSE strtoul(u.port),
                   path  |-> strdup_text(u.path, "path" \notin dup_fault),
                   query |-> IF query_code = CURLUE_OK
                             THEN strdup_text(u.query, "query" \notin dup_fault)
                             ELSE strdup_text(<<>>, "query" \notin dup_fault)]]

parse_handle(u, fault, dup_fault) ==
    IF u.code # CURLUE_OK THEN ParseFailed
    ELSE parse_parts(u, curl_url_get(u, "host", fault = "host"),
                     curl_url_get(u, "port", fault = "port"),
                     curl_url_get(u, "path", fault = "path"),
                     curl_url_get(u, "query", fault = "query"), dup_fault)

\* the value http_parse_url returns and what it stores through its pointers
parse_url(url, fault, dup_fault) ==
    IF fault = "curl_url" THEN ParseFailed ELSE parse_handle(curl_url_set(url), fault, dup_fault)

http_parse_url(url, fault, dup_fault) ==
    /\ pc = "idle"
    /\ variant = 1
    /\ NewCall("http_parse_url", [NoArgs EXCEPT !.url = url])
    /\ ret' = parse_url(url, fault, dup_fault).ret
    /\ out' = parse_url(url, fault, dup_fault).out
    /\ pc' = "returned"
    /\ skipped' = FALSE
    /\ easy' = NoEasy
    /\ response_data' = NoData
    /\ request_data' = NoRequest
    /\ response' = NULL
    /\ acquired' = {}
    /\ released' = <<>>
    /\ UNCHANGED <<variant, globals>>

\* ------------------------------------------------------------------ caller
\* main: the caller reads the outputs of the returned call and frees them
main_free ==
    /\ pc = "returned"
    /\ pc' = "idle"
    /\ NewCall("none", NoArgs)
    /\ NoTransfer
    /\ ret' = 0
    /\ skipped' = FALSE
    /\ UNCHANGED <<variant, globals>>

Next ==
    \/ http_init
    \/ http_cleanup
    \/ \E r \in PostRequests, fmt_ok \in BOOLEAN, malloc_ok \in BOOLEAN, garbage \in Garbage,
          easy_ok \in BOOLEAN :
            http_post(r.host, r.port, r.path, r.json, fmt_ok, malloc_ok, garbage, easy_ok)
    \/ \E r \in GetRequests, fmt_ok \in BOOLEAN, malloc_ok \in BOOLEAN, garbage \in Garbage,
          easy_ok \in BOOLEAN :
            http_get(r.host, r.port, r.path, fmt_ok, malloc_ok, garbage, easy_ok)
    \/ \E r \in PostRequests, malloc_ok \in BOOLEAN, init_ok \in BOOLEAN, fmt_ok \in BOOLEAN,
          easy_ok \in BOOLEAN :
            http_post_2(r.host, r.port, r.path, r.json, malloc_ok, init_ok, fmt_ok, easy_ok)
    \/ \E r \in GetRequests, malloc_ok \in BOOLEAN, init_ok \in BOOLEAN, fmt_ok \in BOOLEAN,
          easy_ok \in BOOLEAN :
            http_get_2(r.host, r.port, r.path, malloc_ok, init_ok, fmt_ok, easy_ok)
    \/ \E url \in Urls, fault \in LibFaults, dup_fault \in DupFaults :
            http_parse_url(url, fault, dup_fault)
    \/ main_free
    \/ \E buffer_size \in Caps : read_callback(buffer_size)
    \/ \E contents \in Chunks, realloc_ok \in BOOLEAN : write_callback(contents, realloc_ok)
    \/ \E res \in {CURLE_OK, CURLE_COULDNT_CONNECT, CURLE_WRITE_ERROR} : http_return(res)
    \/ \E res \in {CURLE_OK, CURLE_COULDNT_CONNECT, CURLE_WRITE_ERROR}, dup_ok \in BOOLEAN :
            http_return_2(res, dup_ok)

Spec == Init /\ [][Next]_vars

\* ================================================================== claims
Returned(name) == pc = "returned" /\ op = name

IsRequest == op \in {"http_get", "http_post"}

RECURSIVE Sum(_)
Sum(h) == IF h = <<>> THEN 0 ELSE Head(h) + Sum(Tail(h))

\* the chunks write_callback stored, concatenated in arrival order
RECURSIVE Stored(_)
Stored(h) ==
    IF h = <<>> THEN <<>>
    ELSE IF Head(h).ok THEN Head(h).contents \o Stored(Tail(h)) ELSE Stored(Tail(h))

\* the chunks the transport delivered to write_callback, concatenated
RECURSIVE Delivered(_)
Delivered(h) == IF h = <<>> THEN <<>> ELSE Head(h).contents \o Delivered(Tail(h))

\* no allocation of the returned call failed
NoAllocationFailed == ~response.null /\ \A i \in 1..Len(write_hist) : write_hist[i].ok

\* C1: whenever http_get/http_post return after the transfer was attempted,
\* *response is a zero-terminated buffer holding exactly the chunks delivered
\* to write_callback, in order ("" when there were none).  The claim is about
\* every outcome; it is stated here for the outcomes in which every allocation
\* succeeded, where it already fails.
C1_BodyIsConcatenation ==
    (pc = "returned" /\ IsRequest /\ easy.set /\ NoAllocationFailed) =>
        response.mem = Delivered(write_hist) \o <<0>>

\* path without its whole run of leading "/" characters
LeadingSlashes(path) ==
    CHOOSE k \in 0..Len(path) :
        /\ \A i \in 1..k : path[i] = "/"
        /\ k = Len(path) \/ path[k + 1] # "/"

\* C2: the URL handed to the transport is host ":" decimal(port) "/" p, p being
\* path without its leading slashes.
C2_UrlBuilt ==
    (IsRequest /\ easy.set) =>
        easy.url = args.host \o <<":">> \o Decimal(args.port) \o <<"/">>
                   \o SubSeq(args.path, LeadingSlashes(args.path) + 1, Len(args.path))

\* C3: with the fixed-size buffer (translation units 1 and 3), a formatted URL
\* longer than PATH_MAX makes the call return -1 and no request is issued.
C3_TooLongFails ==
    (IsRequest /\ variant \in {1, 3}
       /\ Len(Format(args.host, args.port, StripLeadingSlashes(args.path))) > PATH_MAX) =>
        /\ pc = "returned"
        /\ ret = -1
        /\ ~easy.set

\* C4: whatever sequence of http_init and http_cleanup calls is made,
\* curl_global_init and curl_global_cleanup are each executed at most once.
C4_GlobalAtMostOnce ==
    variant = 1 => global_init_calls <= 1 /\ global_cleanup_calls <= 1

C4_Witness ==
    /\ op = "http_cleanup"
    /\ skipped
    /\ _curl_global_init_spawned = 1
    /\ global_init_calls = 1
    /\ global_cleanup_calls = 1

\* C5: for a POST body of length n the declared length is n; read_callback
\* supplies successive bytes of the body, never more than n in total, at least
\* one per invocation while bytes are left (so n is reached within n
\* invocations), and returns 0 once all n were supplied (at once when n = 0).
C5_ReadCallback ==
    (op = "http_post" /\ easy.set) =>
        /\ easy.postfieldsize = Len(args.json)
        /\ sent \o request_data.data = args.json
        /\ request_data.size = Len(args.json) - Len(sent)
        /\ Len(sent) <= Len(args.json)
        /\ Len(sent) = Sum(read_hist)
        /\ \A i \in 1..Len(read_hist) :
              IF Sum(SubSeq(read_hist, 1, i - 1)) = Len(args.json)
              THEN read_hist[i] = 0
              ELSE read_hist[i] >= 1

C5_Witness ==
    /\ op = "http_post"
    /\ pc = "perform"
    /\ Len(args.json) = 2
    /\ read_hist = <<1, 1, 0>>
    /\ sent = args.json

\* C6: when realloc fails in write_callback on a non-empty chunk, the callback
\* returns 0 and leaves data and size as they were, and the call then returns a
\* non-zero status.
ReallocFailed(h) == \E i \in 1..Len(h) : ~h[i].ok /\ h[i].contents # <<>>

C6_ReallocFailureAborts ==
    /\ [](/\ \A i \in 1..Len(write_hist) :
                (~write_hist[i].ok /\ write_hist[i].contents # <<>>) => write_hist[i].ret = 0
          /\ (pc = "returned" /\ IsRequest /\ ReallocFailed(write_hist)) => ret # CURLE_OK)
    /\ [][(Len(write_hist') = Len(write_hist) + 1 /\ ~write_hist'[Len(write_hist')].ok)
            => response_data' = response_data]_vars

C6_Witness ==
    /\ pc = "returned"
    /\ IsRequest
    /\ Len(write_hist) = 2
    /\ write_hist[1].ok
    /\ ~write_hist[2].ok
    /\ write_hist[2].contents # <<>>
    /\ ret = CURLE_WRITE_ERROR

\* C7: http_parse_url returns 0 only with host, path and query non-null and
\* port written, and returns -1 otherwise.
C7_ParseAllOrNothing ==
    Returned("http_parse_url") =>
        /\ ret \in {0, -1}
        /\ ret = 0 <=> (~out.host.null /\ ~out.path.null /\ ~out.query.null /\ out.port >= 0)

\* the text between the last ":" of the URL's authority and the authority's end
ExplicitPort(url) ==
    LET rest == IF SchemeLen(url) > 0 THEN SubSeq(url, SchemeLen(url) + 4, Len(url)) ELSE url
        auth == SubSeq(rest, 1, FirstOf(rest, {"/", "?"}) - 1)
    IN  IF LastColon(auth) > 0 THEN SubSeq(auth, LastColon(auth) + 1, Len(auth)) ELSE <<>>

\* the text after the first "?" of the URL
QueryText(url) == SubSeq(url, FirstOf(url, {"?"}) + 1, Len(url))

\* C8: after a successful http_parse_url the port is 80 when the URL has no
\* explicit port and the explicit port's value otherwise, and the query is the
\* non-null string after "?", empty when the URL has none.
C8_PortAndQueryDefaults ==
    (Returned("http_parse_url") /\ ret = 0) =>
        /\ out.port = IF ExplicitPort(args.url) = <<>> THEN 80 ELSE strtoul(ExplicitPort(args.url))
        /\ ~out.query.null
        /\ out.query.mem = QueryText(args.url)

\* C9: every http_post that reaches the transport has exactly the three JSON
\* headers set on the transfer.
C9_PostHeaders ==
    (op = "http_post" /\ easy.set) =>
        easy.headers = <<"Accept: application/json", "Content-Type: application/json",
                         "charsets: utf-8">>

\* C10: after a write_callback invocation that succeeded, size is the sum of
\* the chunk sizes received, the first size bytes are the chunks in arrival
\* order, the byte after them is 0, and the callback returned the chunk's size.
C10_WriteCallback ==
    (write_hist # <<>> /\ write_hist[Len(write_hist)].ok) =>
        /\ response_data.size = Sum([i \in 1..Len(write_hist) |->
                                      IF write_hist[i].ok THEN Len(write_hist[i].contents) ELSE 0])
        /\ ~response_data.data.null
        /\ Len(response_data.data.mem) = response_data.size + 1
        /\ SubSeq(response_data.data.mem, 1, response_data.size) = Stored(write_hist)
        /\ response_data.data.mem[response_data.size + 1] = 0
        /\ write_hist[Len(write_hist)].ret = Len(write_hist[Len(write_hist)].contents)

C10_Witness ==
    /\ pc = "perform"
    /\ Len(write_hist) = 2
    /\ write_hist[1].ok
    /\ write_hist[2].ok
    /\ write_hist[1].contents = <<2, 0, 1>>
    /\ write_hist[2].contents = <<1>>
    /\ ~response_data.data.null
    /\ response_data.data.mem = <<2, 0, 1, 1, 0>>

\* ---------------------------------------------------------------------- C11
\* http_init has returned and http_cleanup has not been called since
InitInForce == init_hist \in {"init", "reinit"}

TimesReleased(x) == Cardinality({i \in DOMAIN released : released[i] = x})

\* C12, on the return path of success of http_post: every resource the call acquired
\* (response buffer, POST header list, heap-allocated URL string, transport handle,
\* per-call global initialisation) has been released exactly once or handed to the
\* caller through *response; none is left unreleased
C12_NothingLeftUnreleased ==
    (Returned("http_post") /\ ret = CURLE_OK) => \A x \in acquired : TimesReleased(x) = 1

====
